---------------------------- MODULE Spec2Model ----------------------------
(***************************************************************************)
(* A model of the Vietnamese stock visualizer: the VNStockVisualizer       *)
(* object (constructor, fetch_data, print_summary, the four plot_*         *)
(* methods), its command line driver main() and the web handler            *)
(* analyze_stock().  Strings are sequences of one-character strings,       *)
(* floats are exact rationals [n, d] (d > 0) with NaN = [n=0, d=0], dates  *)
(* printed as 'YYYY-MM-DD' are triples <<y, m, d>>, and a datetime is the  *)
(* number of days since 1970-01-01.                                        *)
(***************************************************************************)
EXTENDS Integers, Sequences, FiniteSets, TLC

\* ------------------------------------------------------------------ bounds

\* Longest series the upstream provider returns in the model.
MaxLen == 21

\* Number of distinct price/volume patterns the provider draws from.
NumPatterns == 2

\* Requests the web server handles at once.
NumRequests == 2

\* Ticks of the server's clock in one second, and the last tick modelled.
TicksPerSecond == 2

MaxClock == 2

\* ------------------------------------------------------- program constants

\* timedelta(days=180) of the constructor.
DefaultDays == 180

\* rolling(window=20) of plot_volume_analysis.
VolumeWindow == 20

\* ma_periods=[20, 50, 100], the default of plot_price_and_moving_averages.
DefaultMaPeriods == <<20, 50, 100>>

\* ----------------------------------------------------------------- strings

LowerLetters == <<"a","b","c","d","e","f","g","h","i","j","k","l","m",
                  "n","o","p","q","r","s","t","u","v","w","x","y","z">>

UpperLetters == <<"A","B","C","D","E","F","G","H","I","J","K","L","M",
                  "N","O","P","Q","R","S","T","U","V","W","X","Y","Z">>

\* str.lower() on one character.
LowerChar(c) ==
  IF \E i \in 1..26 : UpperLetters[i] = c
    THEN LowerLetters[CHOOSE i \in 1..26 : UpperLetters[i] = c]
    ELSE c

\* str.upper() on one character.
UpperChar(c) ==
  IF \E i \in 1..26 : LowerLetters[i] = c
    THEN UpperLetters[CHOOSE i \in 1..26 : LowerLetters[i] = c]
    ELSE c

\* A plausible slip: swapcase() instead of lower().
StrLowerSwapcase(s) ==
  [i \in 1..Len(s) |-> IF LowerChar(s[i]) = s[i] THEN UpperChar(s[i])
                                                 ELSE LowerChar(s[i])]

StrLower(s) == [i \in 1..Len(s) |-> LowerChar(s[i])]

StrUpper(s) == [i \in 1..Len(s) |-> UpperChar(s[i])]

\* Column names the program looks up.
TIME   == <<"t","i","m","e">>
OPEN   == <<"o","p","e","n">>
HIGH   == <<"h","i","g","h">>
LOW    == <<"l","o","w">>
CLOSE  == <<"c","l","o","s","e">>
VOLUME == <<"v","o","l","u","m","e">>

\* ------------------------------------------------------------------- dates

\* Python's None where a string or a name is expected.
None == <<"None">>

\* The proleptic Gregorian day count of y-m-d (what parsing 'YYYY-MM-DD' and
\* taking the date's ordinal does), relative to 1970-01-01.
DaysFromCivil(y, m, d) ==
  LET yy  == IF m <= 2 THEN y - 1 ELSE y
      era == yy \div 400
      yoe == yy - era * 400
      mp  == IF m > 2 THEN m - 3 ELSE m + 9
      doy == (153 * mp + 2) \div 5 + d - 1
      doe == yoe * 365 + yoe \div 4 - yoe \div 100 + doy
  IN  era * 146097 + doe - 719468

\* The inverse: the calendar date of a day count.
CivilFromDays(z) ==
  LET zz  == z + 719468
      era == zz \div 146097
      doe == zz - era * 146097
      yoe == (doe - doe \div 1460 + doe \div 36524 - doe \div 146096) \div 365
      doy == doe - (365 * yoe + yoe \div 4 - yoe \div 100)
      mp  == (5 * doy + 2) \div 153
      d   == doy - (153 * mp + 2) \div 5 + 1
      m   == IF mp < 10 THEN mp + 3 ELSE mp - 9
      y   == yoe + era * 400
  IN  << IF m <= 2 THEN y + 1 ELSE y, m, d >>

\* datetime.strftime('%Y-%m-%d'): the printed date of a datetime.
Strftime(dt) == CivilFromDays(dt)

\* Whether a 'YYYY-MM-DD' string names a calendar date.
ValidDateStr(s) ==
  /\ Len(s) = 3
  /\ s[2] \in 1..12
  /\ s[3] >= 1
  /\ CivilFromDays(DaysFromCivil(s[1], s[2], s[3])) = s

\* A cell of a date column or of the index: an unparsed string, a parsed
\* Timestamp, or a position of a RangeIndex.
StrCell(s) == [t |-> "str", v |-> s]
TsCell(n)  == [t |-> "ts",  v |-> <<n>>]
IntCell(n) == [t |-> "int", v |-> <<n>>]

\* pd.to_datetime on one cell: parses a string, keeps a Timestamp.
ToDatetimeCell(c) ==
  IF c.t = "str" THEN TsCell(DaysFromCivil(c.v[1], c.v[2], c.v[3])) ELSE c

\* pd.to_datetime raises on a cell it cannot parse.
ToDatetimeFails(c) == c.t = "str" /\ ~ValidDateStr(c.v)

\* --------------------------------------------------------------- rationals

RECURSIVE Gcd(_, _)
Gcd(a, b) == IF b = 0 THEN a ELSE Gcd(b, a % b)

Abs(x) == IF x < 0 THEN -x ELSE x

NaN == [n |-> 0, d |-> 0]

IsNaN(x) == x.d = 0

\* The rational n/d in lowest terms, d > 0.
Rat(n, d) ==
  LET g == Gcd(Abs(n), Abs(d))
      s == IF d < 0 THEN -1 ELSE 1
  IN  IF d = 0 THEN NaN ELSE [n |-> s * (n \div g), d |-> s * (d \div g)]

R(i) == [n |-> i, d |-> 1]

RSub(a, b) == IF IsNaN(a) \/ IsNaN(b) THEN NaN
              ELSE Rat(a.n * b.d - b.n * a.d, a.d * b.d)

RMul(a, b) == IF IsNaN(a) \/ IsNaN(b) THEN NaN
              ELSE Rat(a.n * b.n, a.d * b.d)

\* Float division; the prices of a series are positive, so the only zero
\* divisor the program meets is none.
RDiv(a, b) == IF IsNaN(a) \/ IsNaN(b) THEN NaN
              ELSE Rat(a.n * b.d, a.d * b.n)

\* Python's round-half-even of format(x, '.0f'), as an integer.
RoundHalfEven(x) ==
  LET fl   == x.n \div x.d
      rem2 == 2 * (x.n - fl * x.d)
  IN  IF rem2 < x.d THEN fl
      ELSE IF rem2 > x.d THEN fl + 1
      ELSE IF fl % 2 = 0 THEN fl ELSE fl + 1

\* format(x, ',.0f'): the text of x rounded to no decimals ("nan" for NaN).
Fmt0(x) == IF IsNaN(x) THEN NaN ELSE R(RoundHalfEven(x))

\* format(x, '.2f'): the text of x rounded to two decimals.
Fmt2(x) == IF IsNaN(x) THEN NaN ELSE Rat(RoundHalfEven(RMul(x, R(100))), 100)


\* -------------------------------------------------------------- DataFrames

\* A pandas DataFrame, column by column: the columns in order (each a name and
\* its values, one per row), the row index and the index's name.
NoneFrame == [kind |-> "None", columns |-> << >>, index |-> << >>,
              index_name |-> None]

IsNone(df) == df.kind = "None"

\* len(df): the number of rows.
DfLen(df) == Len(df.index)

\* df.empty: any axis of length 0.
Empty(df) == Len(df.index) = 0 \/ Len(df.columns) = 0

\* The positions of the columns called name.
ColPositions(df, name) == {i \in 1..Len(df.columns) : df.columns[i].name = name}

\* name in df.columns
HasCol(df, name) == ColPositions(df, name) # {}

\* df[name] is a Series only when exactly one column has that name: none is a
\* KeyError, several give a DataFrame that the arithmetic and the formatting
\* of the callers reject.
IsSeriesCol(df, name) == Cardinality(ColPositions(df, name)) = 1

\* df[name] as a plain sequence of values.
Col(df, name) == df.columns[CHOOSE i \in ColPositions(df, name) : TRUE].values

\* df.columns = df.columns.str.lower()
LowerColumns(df) ==
  [df EXCEPT !.columns = [i \in 1..Len(df.columns) |->
      [name |-> StrLower(df.columns[i].name), values |-> df.columns[i].values]]]

\* df[name] = pd.to_datetime(df[name]) for a single column name.
ParseColumn(df, name) ==
  [df EXCEPT !.columns = [i \in 1..Len(df.columns) |->
      IF df.columns[i].name = name
        THEN [name |-> name,
              values |-> [r \in 1..Len(df.columns[i].values) |->
                             ToDatetimeCell(df.columns[i].values[r])]]
        ELSE df.columns[i]]]

\* The sequence s without its i-th element.
RemoveAt(s, i) == SubSeq(s, 1, i - 1) \o SubSeq(s, i + 1, Len(s))

\* df.set_index(name, inplace=True): the column becomes the index and leaves
\* the columns.
SetIndex(df, name) ==
  LET i == CHOOSE j \in ColPositions(df, name) : TRUE
  IN  [df EXCEPT !.index = df.columns[i].values,
                 !.index_name = name,
                 !.columns = RemoveAt(df.columns, i)]

\* The normalization of fetch_data's vnstock 3.x branch, statement by
\* statement: what self.data holds when the block ends, and the exception
\* that ended it early ("" when none did).  strictStr says whether the pandas
\* in use refuses the .str accessor on the RangeIndex columns of a DataFrame
\* without columns.
NormalizeV3(df, strictStr) ==
  LET lowered == LowerColumns(df)
  IN  IF Len(df.columns) = 0 /\ strictStr
        THEN [error |-> "AttributeError", df |-> df]
      ELSE IF ~HasCol(lowered, TIME)
        THEN [error |-> "", df |-> lowered]
      ELSE IF ~IsSeriesCol(lowered, TIME)
        THEN [error |-> "ValueError", df |-> lowered]
      ELSE IF \E r \in 1..DfLen(lowered) : ToDatetimeFails(Col(lowered, TIME)[r])
        THEN [error |-> "ValueError", df |-> lowered]
      ELSE [error |-> "", df |-> SetIndex(ParseColumn(lowered, TIME), TIME)]

\* ------------------------------------------------ what the provider returns

\* First trading day of the generated series (the leap day follows it).
BaseDay == DaysFromCivil(2024, 2, 27)

Cyc(s, i) == s[((i - 1) % Len(s)) + 1]

\* Close, high, low, open and volume of row i under pattern p.  Pattern 1 is
\* the closes 100, 102, 99, 101, 105 with constant volume 1000.
PClose(p, i) ==
  IF p = 1 THEN Cyc(<<100, 102, 99, 101, 105>>, i)
  ELSE IF p = 2 THEN Cyc(<<200, 100, 400, 200, 50, 100>>, i)
  ELSE 40 * p + 20 * ((i * p) % 5)

PHigh(p, i)   == PClose(p, i) + 1 + ((i * p) % 4)
PLow(p, i)    == PClose(p, i) - 1 - ((i + p) % 3)
POpen(p, i)   == PClose(p, i) + ((i + p) % 3) - 1
PVolume(p, i) == IF p = 1 THEN 1000 ELSE 1000 + 250 * ((i * (p + 1)) % 4) + i

Casing(c, s) ==
  IF c = "upper" THEN StrUpper(s)
  ELSE IF c = "title" THEN <<UpperChar(s[1])>> \o SubSeq(s, 2, Len(s))
  ELSE s

ValueColumn(c, name, n, f(_)) ==
  [name |-> Casing(c, name), values |-> [i \in 1..n |-> f(i)]]

\* A frame of the provider: the date either as a column of 'YYYY-MM-DD'
\* strings over a RangeIndex (how = "col") or already the index of
\* Timestamps (how = "idx"); the field names in casing c; one row per entry
\* of days; prices and volumes of pattern p.
MkFrame(how, c, days, p) ==
  LET n == Len(days)
      o(i) == POpen(p, i)
      h(i) == PHigh(p, i)
      l(i) == PLow(p, i)
      cl(i) == PClose(p, i)
      v(i) == PVolume(p, i)
      fields == << ValueColumn(c, OPEN, n, o), ValueColumn(c, HIGH, n, h),
                   ValueColumn(c, LOW, n, l), ValueColumn(c, CLOSE, n, cl),
                   ValueColumn(c, VOLUME, n, v) >>
      timecol == [name |-> Casing(c, TIME),
                  values |-> [i \in 1..n |-> StrCell(CivilFromDays(days[i]))]]
  IN  IF how = "col"
        THEN [kind |-> "df", columns |-> <<timecol>> \o fields,
              index |-> [i \in 1..n |-> IntCell(i - 1)], index_name |-> None]
        ELSE [kind |-> "df", columns |-> fields,
              index |-> [i \in 1..n |-> TsCell(days[i])], index_name |-> TIME]

Ascending(n) == [i \in 1..n |-> BaseDay + i - 1]

Lengths == {0, 1, 2, 3, 5, MaxLen - 1, MaxLen}

Layouts == { <<"col", "lower">>, <<"col", "title">>,
             <<"idx", "lower">>, <<"idx", "upper">> }

\* Well-formed answers: ascending unique dates and the five fields; every
\* layout at three rows, every length in lower case.
CleanFrames ==
  { MkFrame(ly[1], ly[2], Ascending(3), p) :
      ly \in Layouts, p \in 1..NumPatterns }
  \cup { MkFrame(how, "lower", Ascending(n), p) :
           how \in {"col", "idx"}, n \in Lengths, p \in 1..NumPatterns }

Small == MkFrame("col", "lower", Ascending(3), 1)

\* Answers the program does not rule out: a repeated date, descending dates,
\* an extra column, a missing field, an unparsable date, two date columns, a
\* DataFrame() without columns.
OddFrames ==
  { MkFrame("col", "title", <<BaseDay, BaseDay, BaseDay + 1>>, 1),
    MkFrame("col", "lower", <<BaseDay + 2, BaseDay + 1, BaseDay>>, 2),
    MkFrame("idx", "lower", <<BaseDay + 2, BaseDay, BaseDay + 1>>, 2),
    [Small EXCEPT !.columns = @ \o
       << [name |-> <<"t","i","c","k","e","r">>,
           values |-> [i \in 1..3 |-> 0]] >>],
    [Small EXCEPT !.columns = SubSeq(@, 1, 5)],
    [Small EXCEPT !.columns[1].values[2] = StrCell(<<2024, 2, 30>>)],
    [Small EXCEPT !.columns = << [name |-> <<"T","i","m","e">>,
                                  values |-> Small.columns[1].values] >> \o @],
    [kind |-> "df", columns |-> << >>, index |-> << >>, index_name |-> None] }

RawFrames == CleanFrames \cup OddFrames

\* Exceptions of the retrieval call: network, parsing, authentication.
UpstreamErrors == {"ConnectionError", "JSONDecodeError", "PermissionError"}


\* ------------------------------------------------------------ the indicators

RECURSIVE SeqSum(_)
SeqSum(s) == IF s = << >> THEN 0 ELSE s[1] + SeqSum(Tail(s))

RECURSIVE SeqMax(_)
SeqMax(s) == IF Len(s) = 1 THEN s[1]
             ELSE LET m == SeqMax(Tail(s)) IN IF s[1] > m THEN s[1] ELSE m

RECURSIVE SeqMin(_)
SeqMin(s) == IF Len(s) = 1 THEN s[1]
             ELSE LET m == SeqMin(Tail(s)) IN IF s[1] < m THEN s[1] ELSE m

\* Series.mean()
Mean(s) == Rat(SeqSum(s), Len(s))

\* pandas' sliding-window mean: the running sum takes each new value in and,
\* once the window is full, lets the oldest one out; an entry is defined when
\* the window holds min_periods observations.
RECURSIVE RollFrom(_, _, _, _, _, _)
RollFrom(vals, w, minp, i, sum, nobs) ==
  IF i > Len(vals) THEN << >>
  ELSE LET leave == i > w
           sum2  == sum + vals[i] - (IF leave THEN vals[i - w] ELSE 0)
           nobs2 == nobs + 1 - (IF leave THEN 1 ELSE 0)
       IN  << IF nobs2 >= minp THEN Rat(sum2, nobs2) ELSE NaN >>
             \o RollFrom(vals, w, minp, i + 1, sum2, nobs2)

\* A plausible slip: rolling(window=w, min_periods=1).mean().
RollingMeanMinPeriods1(vals, w) == RollFrom(vals, w, 1, 1, 0, 0)

\* Series.rolling(window=w).mean(): min_periods defaults to the window.
RollingMean(vals, w) == RollFrom(vals, w, w, 1, 0, 0)

\* Series.shift(1): every value one row later, NaN in front.
Shift1(vals) ==
  [i \in 1..Len(vals) |-> IF i = 1 THEN NaN ELSE R(vals[i - 1])]

\* A plausible slip: the change against the first row instead of the row
\* before.
PctChangeFromFirst(vals) ==
  [i \in 1..Len(vals) |->
     IF i = 1 THEN NaN ELSE RSub(RDiv(R(vals[i]), R(vals[1])), R(1))]

\* Series.pct_change(): values / values.shift(1) - 1.
PctChange(vals) ==
  LET shifted == Shift1(vals)
  IN  [i \in 1..Len(vals) |-> RSub(RDiv(R(vals[i]), shifted[i]), R(1))]

\* Series.dropna()
RECURSIVE DropNa(_)
DropNa(s) == IF s = << >> THEN << >>
             ELSE (IF IsNaN(s[1]) THEN << >> ELSE <<s[1]>>) \o DropNa(Tail(s))

\* Series.std() * scale.  The sample standard deviation (ddof = 1) skips the
\* NaN entries and is NaN when fewer than two values remain; its value is
\* kept as the sample it is taken over, the square root not being rational.
NoStd == [defined |-> FALSE, sample |-> << >>, scale |-> 0]

\* A plausible slip: zero instead of NaN when too few values remain.
StdTimesZeroWhenShort(s, k) ==
  [defined |-> TRUE, sample |-> DropNa(s), scale |-> k]

StdTimes(s, k) ==
  LET xs == DropNa(s)
  IN  IF Len(xs) < 2 THEN NoStd
      ELSE [defined |-> TRUE, sample |-> xs, scale |-> k]

\* A plausible slip: the test of the length against the period left out.
RECURSIVE MovingAveragesNoLenCheck(_, _)
MovingAveragesNoLenCheck(closes, periods) ==
  IF periods = << >> THEN << >>
  ELSE << [period |-> periods[1],
           values |-> RollFrom(closes, periods[1], periods[1], 1, 0, 0)] >>
       \o MovingAveragesNoLenCheck(closes, Tail(periods))

\* ma_periods filtered by len(self.data) >= period, each with its rolling mean
\* of close (the loop of plot_price_and_moving_averages).
RECURSIVE MovingAverages(_, _)
MovingAverages(closes, periods) ==
  IF periods = << >> THEN << >>
  ELSE (IF Len(closes) >= periods[1]
          THEN << [period |-> periods[1],
                   values |-> RollingMean(closes, periods[1])] >>
          ELSE << >>)
       \o MovingAverages(closes, Tail(periods))

\* daily_returns = self.data['close'].pct_change() * 100
DailyReturns(closes) ==
  LET pc == PctChange(closes)
  IN  [i \in 1..Len(closes) |-> RMul(pc[i], R(100))]


\* --------------------------------------------------------------- the summary

\* The first exception of the column and index accesses that print_summary
\* and analyze_stock make, in their order: latest['close'], index[-1].strftime,
\* data['high'], data['low'], data['volume'].  "" when none raises.
SummaryRaises(df) ==
  IF ~IsSeriesCol(df, CLOSE) THEN "KeyError"
  ELSE IF df.index[DfLen(df)].t # "ts" THEN "AttributeError"
  ELSE IF \E c \in {HIGH, LOW, VOLUME} : ~IsSeriesCol(df, c) THEN "KeyError"
  ELSE ""

NoStats ==
  [by |-> "none", symbol |-> << >>, latest_price |-> NaN, latest_date |-> None,
   highest_price |-> NaN, lowest_price |-> NaN, price_change |-> NaN,
   price_change_pct |-> NaN, avg_volume |-> NaN, max_volume |-> NaN,
   volatility |-> NoStd, data_points |-> 0]

\* A plausible slip: the change measured against the second row.
CliSummarySecondRow(df, sym) ==
  LET closes == Col(df, CLOSE)
      n      == DfLen(df)
      first  == closes[IF n > 1 THEN 2 ELSE 1]
      price_change == RSub(R(closes[n]), R(first))
  IN  [NoStats EXCEPT !.by = "cli", !.symbol = sym,
         !.latest_price = R(closes[n]), !.price_change = price_change,
         !.price_change_pct = RMul(RDiv(price_change, R(first)), R(100))]

\* The values print_summary computes and formats (it keeps no count of the
\* rows).
CliSummary(df, sym) ==
  LET closes == Col(df, CLOSE)
      latest == closes[DfLen(df)]
      first  == closes[1]
      price_change     == RSub(R(latest), R(first))
      price_change_pct == RMul(RDiv(price_change, R(first)), R(100))
      daily_returns    == PctChange(closes)
  IN  [by |-> "cli", symbol |-> sym,
       latest_price |-> R(latest),
       latest_date |-> Strftime(df.index[DfLen(df)].v[1]),
       highest_price |-> R(SeqMax(Col(df, HIGH))),
       lowest_price |-> R(SeqMin(Col(df, LOW))),
       price_change |-> price_change,
       price_change_pct |-> price_change_pct,
       avg_volume |-> Mean(Col(df, VOLUME)),
       max_volume |-> R(SeqMax(Col(df, VOLUME))),
       volatility |-> StdTimes(daily_returns, 100),
       data_points |-> 0]

\* The summary dictionary of analyze_stock.
WebSummary(df, sym) ==
  LET closes == Col(df, CLOSE)
      latest == closes[DfLen(df)]
      first  == closes[1]
      price_change     == RSub(R(latest), R(first))
      price_change_pct == RMul(RDiv(price_change, R(first)), R(100))
      daily_returns    == PctChange(closes)
      volatility       == StdTimes(daily_returns, 100)
  IN  [by |-> "web", symbol |-> sym,
       latest_price |-> R(latest),
       latest_date |-> Strftime(df.index[DfLen(df)].v[1]),
       highest_price |-> R(SeqMax(Col(df, HIGH))),
       lowest_price |-> R(SeqMin(Col(df, LOW))),
       price_change |-> price_change,
       price_change_pct |-> price_change_pct,
       avg_volume |-> Mean(Col(df, VOLUME)),
       max_volume |-> R(SeqMax(Col(df, VOLUME))),
       volatility |-> volatility,
       data_points |-> DfLen(df)]

\* One print() call (or one error body): the text with its placeholders, and
\* what fills them, each value under the name of what it is.
Msg(text, args) == [msg |-> text, with |-> args]

Arg(k, v) == [k |-> k, v |-> v]

\* The lines print_summary writes for the values st.
SummaryLines(st, start, end) ==
  << Msg("Summary Statistics for {symbol}", <<Arg("symbol", st.symbol)>>),
     Msg("Period: {start_date} to {end_date}",
         <<Arg("start_date", start), Arg("end_date", end)>>),
     Msg("Latest Price (Close): {:,.0f} VND",
         <<Arg("latest_price", Fmt0(st.latest_price))>>),
     Msg("Latest Date: {}", <<Arg("latest_date", st.latest_date)>>),
     Msg("Highest: {:,.0f} VND",
         <<Arg("highest_price", Fmt0(st.highest_price))>>),
     Msg("Lowest: {:,.0f} VND",
         <<Arg("lowest_price", Fmt0(st.lowest_price))>>),
     Msg("Price Change: {:+,.0f} VND ({:+.2f}%)",
         <<Arg("price_change", Fmt0(st.price_change)),
           Arg("price_change_pct", Fmt2(st.price_change_pct))>>),
     Msg("Average Daily Volume: {:,.0f}",
         <<Arg("avg_volume", Fmt0(st.avg_volume))>>),
     Msg("Highest Volume: {:,.0f}",
         <<Arg("max_volume", Fmt0(st.max_volume))>>),
     Msg("Volatility (Daily Std Dev): {:.2f}%",
         <<Arg("volatility", st.volatility)>>) >>

NoDataMsg == Msg("No data available. Please fetch data first.", << >>)


\* ----------------------------------------------------------------- the state

VARIABLES
  version,      \* VNSTOCK_VERSION: 3 (vnstock3 imported) or 0 (vnstock 0.x)
  now,          \* the day datetime.now() falls on
  caller,       \* who drives the visualizer: "cli" (main), "web"
                \* (analyze_stock), "lib" (a script calling the methods)
  args,         \* the arguments the constructor was called with
  save_charts,  \* --save-charts of the command line
  pc,           \* the caller's next step
  symbol,       \* self.symbol
  start_date,   \* self.start_date
  end_date,     \* self.end_date
  data,         \* self.data
  upstream,     \* what the retrieval call of the last fetch_data did
  ret,          \* what the last fetch_data returned
  out,          \* the lines the last step printed
  raised,       \* the exception the last step let out to its caller
  stats,        \* the summary values last computed
  overlay,      \* the indicator series the last plot computed
  files,        \* the chart files written
  shown,        \* the charts displayed with show()
  response,     \* the HTTP response of analyze_stock
  clock,        \* the time, in ticks, while the web server handles requests
  req,          \* analyze_stock's local variables, one set per request
  heap,         \* the VNStockVisualizer objects of the requests, by identity
  gcf,          \* pyplot's current figure (one per process)
  disk          \* the files in CHART_OUTPUT_DIR

\* The state of one program run from the command line, of one request or of
\* one script.
svars == << version, now, caller, args, save_charts, pc, symbol, start_date,
            end_date, data, upstream, ret, out, raised, stats, overlay, files,
            shown, response >>

\* The state of the web server handling several requests at once.
wvars == << clock, req, heap, gcf, disk >>

vars == << svars, wvars >>

\* The day the program runs on.
Today == DaysFromCivil(2024, 8, 28)

SymbolInputs == { <<"v","n","m">>, <<"H","p","g">> }

StartInputs == { None, <<2023, 1, 1>> }

EndInputs == { None, <<2023, 12, 31>> }

\* ma_periods a script passes; main and analyze_stock leave the default.
MaPeriodInputs == { DefaultMaPeriods, <<1, 3>>, <<2, 5>> }

NoArgs == [symbol |-> << >>, start_date |-> None, end_date |-> None,
           today |-> 0]

NoUpstream == [outcome |-> "unset", error |-> "", frame |-> NoneFrame,
               strict |-> FALSE]

NoOverlay == [op |-> "none", periods |-> << >>, ma |-> << >>,
              volume_ma |-> << >>, daily_returns |-> << >>,
              returns_index |-> << >>]

NoResponse == [code |-> 0, error |-> Msg("", << >>), charts |-> {}]

\* The requests in flight.
Reqs == 1..NumRequests

\* A plausible slip: one visualizer at module level, used by every request.
SharedVisualizer(r) == 1

\* The VNStockVisualizer object request r works on: the one it constructs
\* itself and holds in a local variable (objects are named after the request
\* that made them).
Visualizer(r) == r

\* A visualizer not yet constructed.
NoVisualizer == [symbol |-> << >>, start_date |-> None, end_date |-> None,
                 data |-> NoneFrame]

NoChartId == [symbol |-> << >>, stamp |-> << >>]

\* analyze_stock's locals before its first statement; upstream is what the
\* retrieval call of this request's fetch_data did.
NoRequest == [pc |-> "idle", k |-> 0, symbol |-> << >>, start_date |-> None,
              end_date |-> None, upstream |-> NoUpstream, summary |-> NoStats,
              chart_id |-> NoChartId, response |-> NoResponse]

\* A chart: its kind, the request whose call made it and the series drawn.
NoFigure == [kind |-> "none", by |-> 0, series |-> NoneFrame]

Init ==
  /\ version \in {3, 0}
  /\ now = Today
  /\ caller = "none"
  /\ args = NoArgs
  /\ save_charts = FALSE
  /\ pc = "idle"
  /\ symbol = << >>
  /\ start_date = None
  /\ end_date = None
  /\ data = NoneFrame
  /\ upstream = NoUpstream
  /\ ret = "unset"
  /\ out = << >>
  /\ raised = ""
  /\ stats = NoStats
  /\ overlay = NoOverlay
  /\ files = {}
  /\ shown = {}
  /\ response = NoResponse
  /\ clock = 0
  /\ req = [r \in Reqs |-> NoRequest]
  /\ heap = [r \in Reqs |-> NoVisualizer]
  /\ gcf = NoFigure
  /\ disk = {}

\* ------------------------------------------------------------ the constructor

\* VNStockVisualizer.__init__: now1 and now2 are its two readings of
\* datetime.now(), the second possibly past midnight.
Construct(sym, s, e, now1, now2) ==
  [symbol |-> StrUpper(sym),
   end_date |-> IF e = None THEN Strftime(now1) ELSE e,
   start_date |-> IF s = None THEN Strftime(now2 - DefaultDays) ELSE s]

\* The visualizer a caller who constructs one at this moment gets.
New(who, sym, s, e, tick) ==
  LET v == Construct(sym, s, e, now, now + tick)
  IN  /\ tick = 1 => (s = None /\ e = None)
      /\ caller' = who
      /\ args' = [symbol |-> sym, start_date |-> s, end_date |-> e,
                  today |-> now]
      /\ now' = now + tick
      /\ symbol' = v.symbol
      /\ start_date' = v.start_date
      /\ end_date' = v.end_date
      /\ data' = NoneFrame

\* main(): parse the command line and construct the visualizer.
CliMain ==
  /\ pc = "idle"
  /\ \E sym \in SymbolInputs, s \in StartInputs, e \in EndInputs,
        save \in BOOLEAN, tick \in {0, 1} :
       /\ New("cli", sym, s, e, tick)
       /\ save_charts' = save
  /\ pc' = "fetch"
  /\ UNCHANGED << wvars, version, upstream, ret, out, raised, stats, overlay, files,
                  shown, response >>

\* analyze_stock(): read the request; without a symbol answer 400, otherwise
\* construct the visualizer (with the symbol already in upper case).
WebAnalyze ==
  /\ pc = "idle"
  /\ \E sym \in SymbolInputs \cup {<< >>}, s \in StartInputs, e \in EndInputs,
        tick \in {0, 1} :
       IF StrUpper(sym) = << >>
         THEN /\ tick = 0
              /\ caller' = "web"
              /\ response' = [NoResponse EXCEPT !.code = 400,
                                !.error = Msg("Stock symbol is required", << >>)]
              /\ pc' = "done"
              /\ UNCHANGED << args, now, symbol, start_date, end_date, data >>
         ELSE /\ New("web", StrUpper(sym), s, e, tick)
              /\ pc' = "fetch"
              /\ UNCHANGED response
  /\ UNCHANGED << wvars, version, save_charts, upstream, ret, out, raised, stats,
                  overlay, files, shown >>

\* A script (example_usage.py, test_visualizer.py) constructs a visualizer,
\* with both dates or with neither, and will either save its charts or show
\* them.  It then gets its series (fetch_data as often as it likes, or a
\* series of its own), may print the summary, and draws the charts in the
\* order of main.
LibNew ==
  /\ pc = "idle"
  /\ \E sym \in SymbolInputs, s \in StartInputs, e \in EndInputs,
        save \in BOOLEAN, tick \in {0, 1} :
       /\ (s = None) <=> (e = None)
       /\ New("lib", sym, s, e, tick)
       /\ save_charts' = save
  /\ pc' = "lib"
  /\ UNCHANGED << wvars, version, upstream, ret, out, raised, stats, overlay, files,
                  shown, response >>


\* ----------------------------------------------------------------- fetch_data

\* What the retrieval call can do: raise, return None, return a frame.  With a
\* DataFrame() without columns comes whether the pandas in use refuses the
\* .str accessor on its columns (a RangeIndex there since pandas 2).
UpstreamOutcomes ==
  { [NoUpstream EXCEPT !.outcome = "raised", !.error = x] :
      x \in UpstreamErrors }
  \cup { [NoUpstream EXCEPT !.outcome = "None"] }
  \cup { [NoUpstream EXCEPT !.outcome = "frame", !.frame = f] :
           f \in RawFrames }
  \cup { [NoUpstream EXCEPT !.outcome = "frame", !.frame = f,
                            !.strict = TRUE] :
           f \in {g \in RawFrames : Len(g.columns) = 0} }

FetchingMsg ==
  Msg("Fetching data for {symbol} from {start_date} to {end_date}...",
      <<Arg("symbol", symbol), Arg("start_date", start_date),
        Arg("end_date", end_date)>>)

ErrorLines(e) ==
  << Msg("Error fetching data: {e}", <<Arg("e", e)>>),
     Msg("traceback", <<Arg("e", e)>>) >>

\* The vnstock 3.x branch normalizes what it got, the 0.x branch takes it as
\* it is (lines 61-84 after the retrieval call returned).
Normalized(u) ==
  IF version = 3 /\ ~IsNone(u.frame)
    THEN NormalizeV3(u.frame, u.strict)
    ELSE [error |-> "", df |-> u.frame]

SuccessLines(df) ==
  << Msg("Successfully fetched {} data points", <<Arg("len", DfLen(df))>>) >>

\* A plausible slip: the test for an empty answer left out.
FetchOutcomeEmptyOk(prev, u) ==
  IF u.outcome = "raised"
    THEN [data |-> prev, ret |-> "False", raised |-> "",
          lines |-> ErrorLines(u.error)]
  ELSE IF Normalized(u).error # ""
    THEN [data |-> Normalized(u).df, ret |-> "False", raised |-> "",
          lines |-> ErrorLines(Normalized(u).error)]
  ELSE [data |-> Normalized(u).df, ret |-> "True", raised |-> "",
        lines |-> SuccessLines(Normalized(u).df)]

\* A plausible slip: the handler prints and raises again.
FetchOutcomeReraise(prev, u) ==
  IF u.outcome = "raised"
    THEN [data |-> prev, ret |-> "False", raised |-> u.error,
          lines |-> ErrorLines(u.error)]
  ELSE IF ~IsNone(Normalized(u).df) /\ ~Empty(Normalized(u).df)
    THEN [data |-> Normalized(u).df, ret |-> "True", raised |-> "",
          lines |-> SuccessLines(Normalized(u).df)]
  ELSE [data |-> Normalized(u).df, ret |-> "False", raised |-> "",
        lines |-> << Msg("No data retrieved", << >>) >>]

\* The body of fetch_data after its first print: the new self.data, the value
\* returned, the exception let out (never one: the handler catches them all)
\* and the lines printed.  An exception of the retrieval call leaves self.data
\* as it was; one of the normalization leaves it as far as the block got.
FetchOutcome(prev, u) ==
  IF u.outcome = "raised"
    THEN [data |-> prev, ret |-> "False", raised |-> "",
          lines |-> ErrorLines(u.error)]
    ELSE
      LET norm == Normalized(u)
      IN  IF norm.error # ""
            THEN [data |-> norm.df, ret |-> "False", raised |-> "",
                  lines |-> ErrorLines(norm.error)]
          ELSE IF ~IsNone(norm.df) /\ ~Empty(norm.df)
            THEN [data |-> norm.df, ret |-> "True", raised |-> "",
                  lines |-> SuccessLines(norm.df)]
          ELSE [data |-> norm.df, ret |-> "False", raised |-> "",
                lines |-> << Msg("No data retrieved", << >>) >>]

\* fetch_data(), and what its caller does with it: on False main prints and
\* returns and analyze_stock answers 400; an exception would end main and
\* make analyze_stock answer 500.
FetchData ==
  /\ pc \in {"fetch", "lib"}
  /\ \E u \in UpstreamOutcomes :
       LET r == FetchOutcome(data, u)
           failed == r.ret = "False"
       IN  /\ upstream' = u
           /\ data' = r.data
           /\ ret' = r.ret
           /\ raised' = r.raised
           /\ out' = <<FetchingMsg>> \o r.lines \o
                (IF caller = "cli" /\ failed /\ r.raised = ""
                   THEN << Msg("Failed to fetch data. Exiting.", << >>) >>
                   ELSE << >>)
           /\ response' =
                IF caller = "web" /\ r.raised # ""
                  THEN [NoResponse EXCEPT !.code = 500,
                          !.error = Msg("{e}", <<Arg("e", r.raised)>>)]
                ELSE IF caller = "web" /\ failed
                  THEN [NoResponse EXCEPT !.code = 400,
                          !.error = Msg("Failed to fetch data for {symbol}",
                                        <<Arg("symbol", symbol)>>)]
                  ELSE response
           /\ pc' = IF failed \/ r.raised # ""
                      THEN (IF caller = "lib" THEN "lib" ELSE "done")
                    ELSE IF caller = "lib" THEN "lib"
                    ELSE "summary"
  /\ stats' = NoStats
  /\ overlay' = NoOverlay
  /\ UNCHANGED << wvars, version, now, caller, args, save_charts, symbol, start_date,
                  end_date, files, shown >>

\* visualizer.data = create_mock_stock_data(...): a script sets the series
\* itself instead of fetching it (test_visualizer.py), dates as the index, the
\* five fields.
LibSetData ==
  /\ pc = "lib"
  /\ upstream = NoUpstream
  /\ \E n \in Lengths \ {0}, p \in 1..NumPatterns :
       data' = MkFrame("idx", "lower", Ascending(n), p)
  /\ out' = << >>
  /\ raised' = ""
  /\ stats' = NoStats
  /\ overlay' = NoOverlay
  /\ UNCHANGED << wvars, version, now, caller, args, save_charts, pc, symbol,
                  start_date, end_date, upstream, ret, files, shown, response >>


\* -------------------------------------------------------------- print_summary

NoData == IsNone(data) \/ Empty(data)

\* The lines print_summary gets out before one of its accesses raises.
HeaderLines ==
  << Msg("Summary Statistics for {symbol}", <<Arg("symbol", symbol)>>),
     Msg("Period: {start_date} to {end_date}",
         <<Arg("start_date", start_date), Arg("end_date", end_date)>>) >>

\* print_summary(), called by main after a fetch that returned True or by a
\* script whenever it has done with getting its series.  An exception it lets
\* out ends the caller.
PrintSummary ==
  /\ pc = IF caller = "lib" THEN "lib" ELSE "summary"
  /\ caller \in {"cli", "lib"}
  /\ IF NoData
       THEN /\ out' = <<NoDataMsg>>
            /\ raised' = ""
            /\ stats' = NoStats
            /\ pc' = "candle"
     ELSE IF SummaryRaises(data) # ""
       THEN /\ out' = HeaderLines
            /\ raised' = SummaryRaises(data)
            /\ stats' = NoStats
            /\ pc' = "done"
       ELSE /\ stats' = CliSummary(data, symbol)
            /\ out' = SummaryLines(stats', start_date, end_date)
            /\ raised' = ""
            /\ pc' = "candle"
  /\ overlay' = NoOverlay
  /\ UNCHANGED << wvars, version, now, caller, args, save_charts, symbol, start_date,
                  end_date, data, upstream, ret, files, shown, response >>

\* analyze_stock() after a fetch that returned True: the check of the series
\* and the summary dictionary.  Its except clause turns any exception into a
\* 500 answer.
WebSummarize ==
  /\ caller = "web" /\ pc = "summary"
  /\ IF NoData
       THEN /\ response' = [NoResponse EXCEPT !.code = 400,
                              !.error = Msg("No data available", << >>)]
            /\ stats' = NoStats
            /\ pc' = "done"
     ELSE IF SummaryRaises(data) # ""
       THEN /\ response' = [NoResponse EXCEPT !.code = 500,
                              !.error = Msg("{e}", <<Arg("e", SummaryRaises(data))>>)]
            /\ stats' = NoStats
            /\ pc' = "done"
       ELSE /\ stats' = WebSummary(data, symbol)
            /\ response' = response
            /\ pc' = "candle"
  /\ out' = << >>
  /\ raised' = ""
  /\ overlay' = NoOverlay
  /\ UNCHANGED << wvars, version, now, caller, args, save_charts, symbol, start_date,
                  end_date, data, upstream, ret, files, shown >>

\* ------------------------------------------------------------------ the plots

NoPath == [dir |-> "", symbol |-> << >>, stamp |-> << >>, suffix |-> ""]

\* save_path as main builds it: f"{args.output_dir}/{symbol}_<suffix>".
CliPath(suffix) ==
  [dir |-> "output_dir", symbol |-> symbol, stamp |-> << >>, suffix |-> suffix]

\* save_path as analyze_stock builds it: CHART_OUTPUT_DIR, then the chart id
\* (the symbol and the time of the request), then the suffix.
WebPathOf(sym, stamp, suffix) ==
  [dir |-> "static/charts", symbol |-> sym, stamp |-> stamp,
   suffix |-> suffix]

WebPath(suffix) == WebPathOf(symbol, <<now>>, suffix)

\* save_path as a script passes it.
LibPath(suffix) ==
  [dir |-> "lib", symbol |-> << >>, stamp |-> << >>, suffix |-> suffix]

\* A plausible slip: save_path not handed on, every chart shown instead.
SavePathsDropped(suffix) == {NoPath}

\* The save_path arguments this caller can pass for a chart: NoPath is None.
SavePaths(suffix) ==
  IF caller = "cli" THEN {IF save_charts THEN CliPath(suffix) ELSE NoPath}
  ELSE IF caller = "web" THEN {WebPath(suffix)}
  ELSE {IF save_charts THEN LibPath(suffix) ELSE NoPath}

Suffixes == <<"candlestick.html", "ma.png", "volume.png", "returns.png">>

\* The step after plot number k: an exception ends the caller, and main stops
\* after the candlestick chart unless --save-charts was given.
AfterPlot(k, failed) ==
  IF failed THEN "done"
  ELSE IF caller = "cli" /\ ~save_charts THEN "done"
  ELSE IF k = 1 THEN "ma"
  ELSE IF k = 2 THEN "volume"
  ELSE IF k = 3 THEN "returns"
  ELSE "done"

\* What every plot_* method does around its own computation: return after a
\* print when there is no series; raise KeyError when a column it reads is
\* missing; otherwise compute ov, then save to save_path or show.  After the
\* last plot analyze_stock answers 200 with the four chart URLs.
Plot(k, cols, ov, path) ==
  LET missing == \E c \in cols : ~IsSeriesCol(data, c)
      failed  == ~NoData /\ missing
      drawn   == ~NoData /\ ~missing
  IN  /\ overlay' = IF drawn THEN ov ELSE NoOverlay
      /\ raised' = IF failed THEN "KeyError" ELSE ""
      /\ out' = IF NoData THEN <<NoDataMsg>>
                ELSE IF drawn /\ path # NoPath
                  THEN << Msg("Chart saved to {save_path}", <<Arg("save_path", path)>>) >>
                ELSE << >>
      /\ files' = IF drawn /\ path # NoPath THEN files \cup {path} ELSE files
      /\ shown' = IF drawn /\ path = NoPath THEN shown \cup {Suffixes[k]}
                  ELSE shown
      /\ pc' = AfterPlot(k, failed)
      /\ response' =
           IF caller = "web" /\ failed
             THEN [NoResponse EXCEPT !.code = 500,
                     !.error = Msg("{e}", <<Arg("e", "KeyError")>>)]
           ELSE IF caller = "web" /\ k = 4
             THEN [NoResponse EXCEPT !.code = 200,
                     !.charts = {WebPath(Suffixes[j]) : j \in 1..4}]
           ELSE response
      /\ UNCHANGED << wvars, version, now, caller, args, save_charts, symbol,
                      start_date, end_date, data, upstream, ret, stats >>

\* plot_candlestick_chart(save_path)
PlotCandlestick ==
  /\ pc \in {"candle", "lib"}
  /\ \E path \in SavePaths(Suffixes[1]) :
       Plot(1, {OPEN, HIGH, LOW, CLOSE, VOLUME},
            [NoOverlay EXCEPT !.op = "candlestick"], path)

\* plot_price_and_moving_averages(ma_periods, save_path)
PlotPriceAndMovingAverages ==
  /\ pc = "ma"
  /\ \E path \in SavePaths(Suffixes[2]),
        periods \in (IF caller = "lib" THEN MaPeriodInputs
                                       ELSE {DefaultMaPeriods}) :
       Plot(2, {CLOSE},
            [NoOverlay EXCEPT !.op = "ma", !.periods = periods,
               !.ma = MovingAverages(Col(data, CLOSE), periods)], path)

\* plot_volume_analysis(save_path)
PlotVolumeAnalysis ==
  /\ pc = "volume"
  /\ \E path \in SavePaths(Suffixes[3]) :
       Plot(3, {CLOSE, OPEN, VOLUME},
            [NoOverlay EXCEPT !.op = "volume",
               !.volume_ma = RollingMean(Col(data, VOLUME), VolumeWindow)],
            path)

\* plot_daily_returns(save_path)
PlotDailyReturns ==
  /\ pc = "returns"
  /\ \E path \in SavePaths(Suffixes[4]) :
       Plot(4, {CLOSE},
            [NoOverlay EXCEPT !.op = "returns",
               !.daily_returns = DailyReturns(Col(data, CLOSE)),
               !.returns_index = data.index], path)

\* ------------------------------------------------------------------ the system

Next ==
  \/ CliMain
  \/ WebAnalyze
  \/ LibNew
  \/ FetchData
  \/ LibSetData
  \/ PrintSummary
  \/ WebSummarize
  \/ PlotCandlestick
  \/ PlotPriceAndMovingAverages
  \/ PlotVolumeAnalysis
  \/ PlotDailyReturns

Spec == Init /\ [][Next]_vars


\* ------------------------------------------- the web server, several requests

\* Each request is one call of analyze_stock in a thread of its own.  Its
\* steps are the statements that touch what the threads have in common: the
\* clock, pyplot's current figure and the chart directory.

\* The date ranges a request asks for: none, or a year.
WebRanges == { <<None, None>>, << <<2023, 1, 1>>, <<2023, 12, 31>> >> }

\* What the provider answers to a request: an error, three rows with the
\* date as a column, five rows with the date as the index.
WebUpstreams ==
  { [NoUpstream EXCEPT !.outcome = "raised", !.error = "ConnectionError"],
    [NoUpstream EXCEPT !.outcome = "frame", !.frame = Small],
    [NoUpstream EXCEPT !.outcome = "frame",
       !.frame = MkFrame("idx", "lower", Ascending(5), 2)] }

\* datetime.now().strftime('%Y%m%d%H%M%S') at tick t: the day and the whole
\* seconds, the fraction dropped.
ChartStamp(t) == <<now, t \div TicksPerSecond>>

\* jsonify({'error': ...}), code
Reply(code, error) == [NoResponse EXCEPT !.code = code, !.error = error]

Figure(kind, r, df) == [kind |-> kind, by |-> r, series |-> df]

\* The directory after fig has been written to path: a file already there
\* is replaced.
WriteFile(d, path, fig) ==
  {f \in d : f.path # path} \cup {[path |-> path, figure |-> fig]}

\* The save_path of chart k of request r.
ChartPath(r, k) ==
  WebPathOf(req[r].chart_id.symbol, req[r].chart_id.stamp, Suffixes[k])

\* The columns plot number k reads.
PlotColumns(k) ==
  IF k = 1 THEN {OPEN, HIGH, LOW, CLOSE, VOLUME}
  ELSE IF k = 3 THEN {CLOSE, OPEN, VOLUME}
  ELSE {CLOSE}

\* The clock moves on.
Tick ==
  /\ clock < MaxClock
  /\ clock' = clock + 1
  /\ UNCHANGED << svars, req, heap, gcf, disk >>

\* analyze_stock, lines 32-41: read the request; without a symbol answer 400,
\* otherwise construct the visualizer.
ReqAnalyze ==
  \E r \in Reqs, sym \in SymbolInputs \cup {<< >>}, range \in WebRanges :
    /\ req[r].pc = "idle"
    /\ IF StrUpper(sym) = << >>
         THEN /\ req' = [req EXCEPT ![r] =
                   [@ EXCEPT !.pc = "done",
                      !.response = Reply(400, Msg("Stock symbol is required",
                                                  << >>))]]
              /\ heap' = heap
         ELSE LET v == Construct(StrUpper(sym), range[1], range[2], now, now)
              IN  /\ req' = [req EXCEPT ![r] =
                        [@ EXCEPT !.pc = "fetch", !.symbol = StrUpper(sym),
                           !.start_date = range[1], !.end_date = range[2]]]
                  /\ heap' = [heap EXCEPT ![Visualizer(r)] =
                        [symbol |-> v.symbol, start_date |-> v.start_date,
                         end_date |-> v.end_date, data |-> NoneFrame]]
    /\ UNCHANGED << svars, clock, gcf, disk >>

\* analyze_stock, lines 44-45: visualizer.fetch_data(), 400 when it returns
\* False (500 should it raise).
ReqFetch ==
  \E r \in Reqs, u \in WebUpstreams :
    /\ req[r].pc = "fetch"
    /\ LET o == Visualizer(r)
           res == FetchOutcome(heap[o].data, u)
       IN  /\ heap' = [heap EXCEPT ![o].data = res.data]
           /\ req' = [req EXCEPT ![r] =
                 [@ EXCEPT !.upstream = u,
                    !.pc = IF res.ret = "True" /\ res.raised = ""
                             THEN "summary" ELSE "done",
                    !.response =
                       IF res.raised # ""
                         THEN Reply(500, Msg("{e}", <<Arg("e", res.raised)>>))
                       ELSE IF res.ret = "False"
                         THEN Reply(400, Msg("Failed to fetch data for {symbol}",
                                             <<Arg("symbol", req[r].symbol)>>))
                       ELSE @]]
    /\ UNCHANGED << svars, clock, gcf, disk >>

\* analyze_stock, lines 48-75: the check of the series, the summary and the
\* chart id, which reads the clock.
ReqSummarize ==
  \E r \in Reqs :
    /\ req[r].pc = "summary"
    /\ LET df == heap[Visualizer(r)].data
       IN  req' = [req EXCEPT ![r] =
             IF IsNone(df) \/ Empty(df)
               THEN [@ EXCEPT !.pc = "done",
                       !.response = Reply(400, Msg("No data available", << >>))]
             ELSE IF SummaryRaises(df) # ""
               THEN [@ EXCEPT !.pc = "done",
                       !.response = Reply(500, Msg("{e}",
                                            <<Arg("e", SummaryRaises(df))>>))]
             ELSE [@ EXCEPT !.pc = "draw", !.k = 1,
                     !.summary = WebSummary(df, req[r].symbol),
                     !.chart_id = [symbol |-> req[r].symbol,
                                   stamp |-> ChartStamp(clock)]]]
    /\ UNCHANGED << svars, clock, heap, gcf, disk >>

\* What analyze_stock does after chart k: the next chart, or the answer with
\* the four chart URLs.
AfterChart(r, k) ==
  IF k < 4 THEN [req[r] EXCEPT !.pc = "draw", !.k = k + 1]
  ELSE [req[r] EXCEPT !.pc = "done", !.k = 0,
          !.response = [NoResponse EXCEPT !.code = 200,
                          !.charts = {ChartPath(r, j) : j \in 1..4}]]

\* A plot_* method up to its save: nothing without a series, KeyError (a 500
\* answer) when a column is missing.  plot_candlestick_chart builds a plotly
\* figure of its own and writes it; the three others draw with pyplot, whose
\* figure() and subplots() replace the current figure of the process.
ReqDraw ==
  \E r \in Reqs :
    /\ req[r].pc = "draw"
    /\ LET k  == req[r].k
           df == heap[Visualizer(r)].data
       IN  IF IsNone(df) \/ Empty(df)
             THEN /\ req' = [req EXCEPT ![r] = AfterChart(r, k)]
                  /\ UNCHANGED << gcf, disk >>
           ELSE IF \E c \in PlotColumns(k) : ~IsSeriesCol(df, c)
             THEN /\ req' = [req EXCEPT ![r] =
                       [@ EXCEPT !.pc = "done", !.k = 0,
                          !.response = Reply(500, Msg("{e}",
                                               <<Arg("e", "KeyError")>>))]]
                  /\ UNCHANGED << gcf, disk >>
           ELSE IF k = 1
             THEN /\ disk' = WriteFile(disk, ChartPath(r, 1),
                                       Figure(Suffixes[1], r, df))
                  /\ req' = [req EXCEPT ![r] = AfterChart(r, 1)]
                  /\ gcf' = gcf
           ELSE /\ gcf' = Figure(Suffixes[k], r, df)
                /\ req' = [req EXCEPT ![r].pc = "save"]
                /\ disk' = disk
    /\ UNCHANGED << svars, clock, heap >>

\* plt.savefig(save_path): the current figure of the process goes to the
\* file.
ReqSave ==
  \E r \in Reqs :
    /\ req[r].pc = "save"
    /\ disk' = WriteFile(disk, ChartPath(r, req[r].k), gcf)
    /\ req' = [req EXCEPT ![r] = AfterChart(r, req[r].k)]
    /\ UNCHANGED << svars, clock, heap, gcf >>

WebNext ==
  \/ Tick
  \/ ReqAnalyze
  \/ ReqFetch
  \/ ReqSummarize
  \/ ReqDraw
  \/ ReqSave

WebSpec == Init /\ [][WebNext]_vars


\* ------------------------------------------------------------------ the claims

\* The last step was fetch_data (every step replaces the lines printed, and
\* fetch_data alone starts with this one).
JustFetched ==
  Len(out) > 0 /\ out[1].msg = FetchingMsg.msg

\* The retrieval call returned None or an empty DataFrame.
UpstreamEmpty ==
  \/ upstream.outcome = "None"
  \/ upstream.outcome = "frame" /\ Empty(upstream.frame)

\* The names of the values a message carries.
Names(m) == {m.with[i].k : i \in 1..Len(m.with)}

RangeNames == {"symbol", "start_date", "end_date"}

\* No summary value computed, no indicator computed, no chart saved or shown.
NothingDerived ==
  stats = NoStats /\ overlay = NoOverlay /\ files = {} /\ shown = {}

\* C1 as claimed: when the retrieval yields None or an empty series, the
\* failure that main or analyze_stock gets names the symbol and the requested
\* range, and neither goes on to statistics or charts.
C1_NoDataSignalNamesSymbolAndRange ==
  (caller \in {"cli", "web"} /\ UpstreamEmpty) =>
     /\ ret = "False"
     /\ NothingDerived
     /\ \/ \E i \in 2..Len(out) : RangeNames \subseteq Names(out[i])
        \/ response.code # 0 /\ RangeNames \subseteq Names(response.error)

\* C1 as amended: when the retrieval yields None or an empty series,
\* fetch_data raises nothing and returns False after printing
\* 'No data retrieved' (or 'Error fetching data', when normalizing the empty
\* frame raised); nothing it prints after the retrieval names the symbol or the
\* range, main adds 'Failed to fetch data. Exiting.' and analyze_stock answers
\* 400 with an error naming the symbol only; neither goes on to statistics or
\* charts.
C1_NoDataReturnsFalseAndStops ==
  (caller \in {"cli", "web"} /\ UpstreamEmpty) =>
     /\ ret = "False"
     /\ raised = ""
     /\ pc = "done"
     /\ NothingDerived
     /\ out[2].msg \in {"No data retrieved", "Error fetching data: {e}"}
     /\ \A i \in 2..Len(out) : Names(out[i]) \cap RangeNames = {}
     /\ caller = "cli" => out[Len(out)].msg = "Failed to fetch data. Exiting."
     /\ caller = "web" =>
          /\ response.code = 400
          /\ response.error.msg = "Failed to fetch data for {symbol}"
          /\ Names(response.error) = {"symbol"}

\* analyze_stock has answered 400 to an empty DataFrame of the provider.
C1_Witness ==
  /\ caller = "web"
  /\ upstream.outcome = "frame"
  /\ Empty(upstream.frame)
  /\ response.code = 400

\* C2 as claimed: an exception of the retrieval call reaches the caller of
\* fetch_data as an exception carrying that cause, and no method prints a
\* failure and returns as if nothing had happened.
C2_ErrorPropagatesWithCause ==
  /\ (JustFetched /\ upstream.outcome = "raised") => raised = upstream.error
  /\ (Len(out) = 1 /\ out[1].msg = NoDataMsg.msg) => raised # ""

\* C2 as amended: an exception of the retrieval call is caught by fetch_data,
\* which prints it with its traceback and returns False, raising nothing;
\* main and analyze_stock then stop without statistics or charts, and the 400
\* answer does not carry the cause.  print_summary and the plot_* methods,
\* called without a series, print 'No data available' and return normally.
C2_ErrorPrintedAndFalseReturned ==
  /\ (JustFetched /\ upstream.outcome = "raised") =>
        /\ raised = ""
        /\ ret = "False"
        /\ out[2].msg = "Error fetching data: {e}"
        /\ out[2].with[1].v = upstream.error
        /\ out[3].msg = "traceback"
        /\ caller \in {"cli", "web"} => (pc = "done" /\ NothingDerived)
        /\ caller = "web" =>
             (response.code = 400 /\ "e" \notin Names(response.error))
  /\ (Len(out) = 1 /\ out[1].msg = NoDataMsg.msg) =>
        (raised = "" /\ NoData /\ stats = NoStats /\ overlay = NoOverlay)

\* A script's fetch met an exception, and its print_summary then printed
\* 'No data available' and returned.
C2_Witness ==
  /\ caller = "lib"
  /\ upstream.outcome = "raised"
  /\ ret = "False"
  /\ Len(out) = 1
  /\ out[1].msg = NoDataMsg.msg
  /\ pc = "candle"

\* The sum of vals over the positions lo..hi.
RECURSIVE WindowSum(_, _, _)
WindowSum(vals, lo, hi) ==
  IF lo > hi THEN 0 ELSE vals[hi] + WindowSum(vals, lo, hi - 1)

\* values is the trailing mean of vals over windows of w: undefined at the
\* first w - 1 positions, the mean of the w values ending at i from then on.
IsTrailingMean(values, vals, w) ==
  /\ Len(values) = Len(vals)
  /\ \A i \in 1..Len(vals) :
       values[i] = IF i >= w THEN Rat(WindowSum(vals, i - w + 1, i), w)
                             ELSE NaN

\* C3: every moving average the program computes (of close for each period
\* it draws, of volume over 20 rows) is, at each position, the mean of the w
\* values ending there, undefined where fewer than w rows have been seen; it
\* reads no later row.
C3_MovingAverageIsTrailingMean ==
  /\ overlay.op = "ma" =>
       \A k \in 1..Len(overlay.ma) :
          IsTrailingMean(overlay.ma[k].values, Col(data, CLOSE),
                         overlay.ma[k].period)
  /\ overlay.op = "volume" =>
       IsTrailingMean(overlay.volume_ma, Col(data, VOLUME), VolumeWindow)

\* A 20-row average of close over more than 20 rows: undefined at first,
\* defined at the end.
C3_Witness ==
  /\ overlay.op = "ma"
  /\ Len(overlay.ma) > 0
  /\ overlay.ma[1].period = DefaultMaPeriods[1]
  /\ DfLen(data) > DefaultMaPeriods[1]
  /\ IsNaN(overlay.ma[1].values[1])
  /\ ~IsNaN(overlay.ma[1].values[DfLen(data)])

AllUndefined(values, n) ==
  Len(values) = n /\ \A i \in 1..n : IsNaN(values[i])

\* The chart of plot number k went where its caller asked: to the file of
\* its save_path, or to the screen.
ChartOut(k) ==
  \A p \in SavePaths(Suffixes[k]) :
     IF p = NoPath THEN Suffixes[k] \in shown ELSE p \in files

\* C4 as claimed: a window longer than the series gives an overlay as long as
\* the series with every entry undefined, for close and for volume.
C4_OversizedWindowAllUndefined ==
  /\ overlay.op = "ma" =>
       \A j \in 1..Len(overlay.periods) :
          overlay.periods[j] > DfLen(data) =>
             \E k \in 1..Len(overlay.ma) :
                /\ overlay.ma[k].period = overlay.periods[j]
                /\ AllUndefined(overlay.ma[k].values, DfLen(data))
  /\ (overlay.op = "volume" /\ VolumeWindow > DfLen(data)) =>
       AllUndefined(overlay.volume_ma, DfLen(data))

\* C4 as amended: a window longer than the series is no error and the chart
\* is still drawn; the 20-row volume average is then as long as the series
\* and undefined throughout, while plot_price_and_moving_averages leaves out
\* the average of every period longer than the series (it computes exactly
\* the periods that fit, in order).
C4_OversizedWindowSkippedOrUndefined ==
  /\ overlay.op = "ma" =>
       /\ raised = ""
       /\ ChartOut(2)
       /\ \A j \in 1..Len(overlay.periods) :
            (overlay.periods[j] <= DfLen(data)) <=>
               \E k \in 1..Len(overlay.ma) :
                  /\ overlay.ma[k].period = overlay.periods[j]
                  /\ Len(overlay.ma[k].values) = DfLen(data)
  /\ overlay.op = "volume" =>
       /\ raised = ""
       /\ ChartOut(3)
       /\ VolumeWindow > DfLen(data) =>
            AllUndefined(overlay.volume_ma, DfLen(data))

\* Three rows, ma_periods = [2, 5]: the average of period 2 alone is drawn.
C4_Witness ==
  /\ overlay.op = "ma"
  /\ DfLen(data) = 3
  /\ overlay.periods = <<2, 5>>
  /\ Len(overlay.ma) = 1
  /\ overlay.ma[1].period = 2

\* C5: the daily returns are as long as the series and carry its index; the
\* first is undefined and each later one is 100 * (close[i] - close[i-1]) /
\* close[i-1].
C5_DailyReturnPct ==
  overlay.op = "returns" =>
     LET c == Col(data, CLOSE)
         r == overlay.daily_returns
     IN  /\ Len(r) = DfLen(data)
         /\ overlay.returns_index = data.index
         /\ IsNaN(r[1])
         /\ \A i \in 2..Len(c) :
              r[i] = Rat(100 * (c[i] - c[i - 1]), c[i - 1])

\* Returns of a series of at least three rows, one of them negative.
C5_Witness ==
  /\ overlay.op = "returns"
  /\ DfLen(data) >= 3
  /\ \E i \in 2..DfLen(data) : overlay.daily_returns[i].n < 0

\* The fields both summaries compute.
Comparable(st) == [st EXCEPT !.by = "", !.data_points = 0]

\* C6: the summary print_summary computes and the one analyze_stock returns
\* hold latest = close of the last row, highest = the largest high, lowest =
\* the smallest low, change = last close - first close, change pct = 100 *
\* change / first close, avg volume = the mean volume, max volume = the
\* largest volume; both compute the same values from the same series; closes
\* 100, 102, 99, 101, 105 with volume 1000 give 105, +5, +5.0 and 1000.
C6_SummaryValues ==
  stats.by \in {"cli", "web"} =>
     LET c == Col(data, CLOSE)
         h == Col(data, HIGH)
         l == Col(data, LOW)
         v == Col(data, VOLUME)
         n == DfLen(data)
     IN  /\ stats.latest_price = R(c[n])
         /\ \E i \in 1..n : stats.highest_price = R(h[i])
         /\ \A i \in 1..n : h[i] <= stats.highest_price.n
         /\ \E i \in 1..n : stats.lowest_price = R(l[i])
         /\ \A i \in 1..n : l[i] >= stats.lowest_price.n
         /\ stats.price_change = R(c[n] - c[1])
         /\ stats.price_change_pct = Rat(100 * (c[n] - c[1]), c[1])
         /\ stats.avg_volume = Rat(WindowSum(v, 1, n), n)
         /\ \E i \in 1..n : stats.max_volume = R(v[i])
         /\ \A i \in 1..n : v[i] <= stats.max_volume.n
         /\ Comparable(stats) = Comparable(CliSummary(data, symbol))
         /\ Comparable(stats) = Comparable(WebSummary(data, symbol))
         /\ (c = <<100, 102, 99, 101, 105>> /\ \A i \in 1..n : v[i] = 1000) =>
              /\ stats.latest_price = R(105)
              /\ stats.price_change = R(5)
              /\ stats.price_change_pct = R(5)
              /\ stats.avg_volume = R(1000)
              /\ stats.highest_price.n >= 105

\* analyze_stock has summarized the closes 100, 102, 99, 101, 105.
C6_Witness ==
  /\ stats.by = "web"
  /\ Col(data, CLOSE) = <<100, 102, 99, 101, 105>>
  /\ \A i \in 1..5 : Col(data, VOLUME)[i] = 1000

\* The five fields once each, and dates as the index.
Canonical(df) ==
  /\ ~IsNone(df)
  /\ \A c \in {OPEN, HIGH, LOW, CLOSE, VOLUME} : IsSeriesCol(df, c)
  /\ \A i \in 1..DfLen(df) : df.index[i].t = "ts"

\* The summary step of this caller has run on the series held.
Summarized ==
  \/ caller \in {"cli", "web"} /\ ret = "True" /\ pc \notin {"fetch", "summary"}
  \/ caller = "lib" /\ Len(out) > 0 /\ out[1].msg = HeaderLines[1].msg

\* C7: a series of one row is summarized without an error, with price change
\* 0, price change percentage 0 and the volatility undefined (NaN), by
\* print_summary and by analyze_stock alike.
C7_SingleRowSummary ==
  (Summarized /\ Canonical(data) /\ DfLen(data) = 1) =>
     /\ stats.by = (IF caller = "web" THEN "web" ELSE "cli")
     /\ caller = "web" => response.code \in {0, 200}
     /\ caller = "lib" => raised = ""
     /\ stats.price_change = R(0)
     /\ stats.price_change_pct = R(0)
     /\ stats.volatility = NoStd

\* main has summarized a series of one row.
C7_Witness ==
  /\ caller = "cli"
  /\ DfLen(data) = 1
  /\ stats.by = "cli"
  /\ ~stats.volatility.defined

\* C8 as claimed: the constructor upper-cases the symbol, keeps the dates it
\* is given, takes today for a missing end date and, for a missing start
\* date, the day 180 days before the end date in effect.  (Stated for a
\* construction that does not run over midnight.)
C8_ConstructorDefaults ==
  (args # NoArgs /\ now = args.today) =>
     /\ symbol = StrUpper(args.symbol)
     /\ args.start_date # None => start_date = args.start_date
     /\ args.end_date # None => end_date = args.end_date
     /\ args.end_date = None => end_date = CivilFromDays(args.today)
     /\ args.start_date = None =>
          start_date = CivilFromDays(
             DaysFromCivil(end_date[1], end_date[2], end_date[3]) - DefaultDays)

\* C9: the normalization of the vnstock 3.x branch changes nothing when it
\* is applied to a series it has already normalized.
C9_NormalizeIdempotent ==
  (/\ version = 3
   /\ JustFetched
   /\ upstream.outcome = "frame"
   /\ out[2].msg # "Error fetching data: {e}") =>
     /\ data = NormalizeV3(upstream.frame, upstream.strict).df
     /\ NormalizeV3(data, upstream.strict) = [error |-> "", df |-> data]

\* A frame with a 'Time' column and capitalized field names was fetched and
\* normalized.
C9_Witness ==
  /\ version = 3
  /\ JustFetched
  /\ ret = "True"
  /\ HasCol(upstream.frame, <<"T","i","m","e">>)
  /\ HasCol(upstream.frame, <<"C","l","o","s","e">>)
  /\ data.index_name = TIME
  /\ HasCol(data, CLOSE)

\* C10 as claimed: after a fetch that returned True the series has exactly
\* the fields open, high, low, close, volume and an index of dates that
\* strictly increase.
C10_FetchedSeriesCanonical ==
  (JustFetched /\ ret = "True") =>
     /\ Len(data.columns) = 5
     /\ {data.columns[i].name : i \in 1..5} = {OPEN, HIGH, LOW, CLOSE, VOLUME}
     /\ \A i \in 1..DfLen(data) : data.index[i].t = "ts"
     /\ \A i, j \in 1..DfLen(data) :
          i < j => data.index[i].v[1] < data.index[j].v[1]

\* C11 as claimed: whichever vnstock is installed, a fetch that returned True
\* leaves the series the other variant would have left for the same answer of
\* the provider: the field names in lower case and the dates as the index (what
\* the 3.x branch makes of it), so that the summary meets the same columns and
\* index under both.
C11_VariantsGiveSameSeries ==
  (JustFetched /\ ret = "True") =>
     LET canon == NormalizeV3(upstream.frame, upstream.strict)
     IN  /\ canon.error = ""
         /\ data = canon.df
         /\ SummaryRaises(data) = SummaryRaises(canon.df)

\* What request r holds derives from its own request alone: no other request
\* works on its visualizer; the visualizer has the symbol and the range r
\* asked for; its series is what fetch_data made of the provider's answer to
\* r; r's summary is computed from that series.
OwnObjects(r) ==
  LET v == heap[Visualizer(r)]
  IN  /\ \A q \in Reqs \ {r} : Visualizer(q) # Visualizer(r)
      /\ req[r].pc \in {"fetch", "summary", "draw", "save"} =>
           /\ v.symbol = req[r].symbol
           /\ v.end_date = Construct(req[r].symbol, req[r].start_date,
                                     req[r].end_date, now, now).end_date
           /\ v.start_date = Construct(req[r].symbol, req[r].start_date,
                                       req[r].end_date, now, now).start_date
      /\ req[r].upstream # NoUpstream =>
           v.data = FetchOutcome(NoneFrame, req[r].upstream).data
      /\ req[r].summary # NoStats =>
           req[r].summary = WebSummary(v.data, req[r].symbol)

\* C12: while several requests run at once, each has a visualizer, a series
\* and a summary of its own, derived from its own request, and a step of one
\* request changes neither the visualizer and series nor the summary of a
\* request that did not take it.
C12_RequestsShareNoSeries ==
  /\ [](\A r \in Reqs : OwnObjects(r))
  /\ [][\A r \in Reqs :
          req'[r] = req[r] => heap'[Visualizer(r)] = heap[Visualizer(r)]]_vars

\* Two requests in the middle of their charts, summarized from different
\* series.
C12_Witness ==
  /\ \A r \in Reqs : req[r].pc \in {"draw", "save"}
  /\ \A r \in Reqs : req[r].summary # NoStats
  /\ heap[Visualizer(1)].data # heap[Visualizer(2)].data
  /\ req[1].summary.latest_price # req[2].summary.latest_price

\* C15 as claimed: two requests that both got their 200 answer name
\* disjoint chart files, and each file named in an answer holds the chart
\* drawn by that request from its own series.
C15_ChartFilesDisjointAndOwn ==
  \A r, q \in Reqs :
     (r # q /\ req[r].response.code = 200 /\ req[q].response.code = 200) =>
        /\ req[r].response.charts \cap req[q].response.charts = {}
        /\ \A p \in req[r].response.charts :
             \E f \in disk :
                /\ f.path = p
                /\ f.figure.by = r
                /\ f.figure.series = heap[Visualizer(r)].data

\* The step a script is at before plot number k (the candlestick chart may
\* also come straight after the series was set).
PlotPcs(k) ==
  IF k = 1 THEN {"candle", "lib"}
  ELSE IF k = 2 THEN {"ma"}
  ELSE IF k = 3 THEN {"volume"}
  ELSE {"returns"}

\* C13: on a visualizer of a script that holds a non-empty series with the
\* five fields and dates as its index, fetched or set directly, print_summary
\* and then the four plots, each with a save_path, raise nothing; each plot
\* adds the file of its own save_path and no other, shows nothing, and leaves
\* the series as it was; after the last one the four files are there.
C13_SummaryAndPlotsSaveAndKeepSeries ==
  /\ [][(caller = "lib" /\ save_charts /\ Canonical(data) /\ ~NoData) =>
          /\ (pc = "lib" /\ pc' \in {"candle", "done"}) =>
                /\ pc' = "candle"
                /\ raised' = ""
                /\ stats'.by = "cli"
                /\ data' = data
                /\ files' = files
          /\ \A k \in 1..4 :
                (pc \in PlotPcs(k) /\ pc' \notin {"lib", "candle"}) =>
                   /\ raised' = ""
                   /\ data' = data
                   /\ LibPath(Suffixes[k]) \notin files
                   /\ files' = files \cup {LibPath(Suffixes[k])}
                   /\ shown' = shown
                   /\ pc' = AfterPlot(k, FALSE)]_vars
  /\ []((caller = "lib" /\ save_charts /\ Canonical(data) /\ ~NoData
           /\ pc = "done") =>
          files = {LibPath(Suffixes[k]) : k \in 1..4})

\* A script set a series of the longest length itself, printed the summary
\* and saved the four charts.
C13_Witness ==
  /\ caller = "lib"
  /\ save_charts
  /\ upstream = NoUpstream
  /\ DfLen(data) = MaxLen
  /\ stats.by = "cli"
  /\ pc = "done"
  /\ Cardinality(files) = 4

\* C14 as claimed: whenever fetch_data has just returned, it returned True
\* exactly when self.data is a non-empty series, so that after False no
\* series is left for print_summary or a plot to work on; and analyze_stock
\* never answers 'No data available'.
C14_ReturnTrueIffSeriesHeld ==
  /\ JustFetched => ((ret = "True") <=> ~NoData)
  /\ response.error.msg # "No data available"

=============================================================================
